---------------------------- MODULE Spec2Model ----------------------------
(***************************************************************************)
(* Kickpad (xyproto/kickpad): the genetic search that evolves synthesizer  *)
(* settings towards a loaded .wav, and the UI handlers that start and      *)
(* cancel it.  The model follows src/main.go (Kickpad 1.2.0).              *)
(*                                                                         *)
(* Two kinds of thread exist in the program: the UI thread, which runs     *)
(* every button handler, and one goroutine per `go optimizeSettings(...)`. *)
(* A goroutine's local variables live in opt[p]; the package-level         *)
(* variables of main.go are the other variables of the module.             *)
(*                                                                         *)
(* *synth.Settings values are pointers.  heap maps an address to the       *)
(* settings stored there; pads[i] and opt[p].bestSettings hold addresses,  *)
(* so `pads[activePadIndex] = bestSettings` makes both name one object.    *)
(* Population members are only ever reached through the goroutine's own    *)
(* slices and are kept by value.                                           *)
(***************************************************************************)
EXTENDS Integers, Sequences, FiniteSets, TLC

(***************************************************************************)
(* Sizes.  The source's values are in parentheses; the model runs the same *)
(* code on smaller ones.                                                   *)
(***************************************************************************)
numPads == 2
    \* pads (16)
maxGenerations == 3
    \* generations of one run (1000)
maxStagnation == 2
    \* generations without improvement that stop a run (10)
tournamentSize == 2
    \* contestants of one tournament (5)
RunPopulation == 2
    \* populationSize of the runs of Spec (100)
RunElite == 1
    \* eliteCount of the runs of Spec (10)
MaxPopulation == 3
    \* populationSize ranges over 1..MaxPopulation in SpecSizes
MaxElite == 2
    \* eliteCount ranges over 0..MaxElite in SpecSizes
MaxScore == 1
    \* finite fitness values are 0..MaxScore
MaxProcs == 2
    \* goroutine slots
MaxWaveLen == 3
    \* lengths of loadedWaveform told apart: 1 as loaded, one more per
    \* resampling, MaxWaveLen and more taken together

(***************************************************************************)
(* Gene values are levels: minAttack..maxAttack are the levels inside the  *)
(* declared bounds, minAttack - 1 stands for every value below them and    *)
(* maxAttack + 1 for every value above.  Attack stands for each of the     *)
(* nine continuous genes, which the code treats alike.                     *)
(***************************************************************************)
minAttack == 1
maxAttack == 2
defaultBitDepth == 16
sampleRates == <<44100, 48000, 96000, 192000>>

(***************************************************************************)
(* The revisions of main.go in the repository, by versionString.  The      *)
(* later ones differ from 1.2.0 in compareWaveformsSafe (both), in the     *)
(* clamps after mutation (1.5.0) and in the cancel channel (1.5.4).        *)
(***************************************************************************)
Revisions == {"1.2.0", "1.5.0", "1.5.4"}
originalSampleRate == 44100

(***************************************************************************)
(* Fitness values are levels too: 0 stands for every score below the       *)
(* convergence threshold 1e-3, and Inf (math.Inf(1)) is above every finite *)
(* score.                                                                  *)
(***************************************************************************)
convergenceThreshold == 1
Inf == MaxScore + 1
Scores == 0..Inf

Pads == 0..(numPads - 1)
Procs == 1..MaxProcs
Addr == 1..(numPads + MaxProcs)

RawAttack == (minAttack - 1)..(maxAttack + 1)
Null == [Attack |-> -1, SampleRate |-> 0, BitDepth |-> 0]

\* func clamp(value, min, max float64) float64
clamp(value, min, max) ==
    IF value < min THEN min ELSE IF value > max THEN max ELSE value

\* synth.NewRandom(nil, sampleRate, bitDepth): any gene values, the given
\* sample rate and bit depth.
NewRandom(sr, bd) ==
    {[Attack |-> a, SampleRate |-> sr, BitDepth |-> bd] : a \in RawAttack}

\* synth.CopySettings: a new object with the same field values.
CopySettings(cfg) == cfg

VARIABLES
    populationSize,   \* const populationSize
    eliteCount,       \* const eliteCount
    revision,         \* const versionString: the main.go that runs
    activePadIndex,
    pads,             \* pads[i]: the address held by slot i
    heap,             \* the settings stored at each address
    loadedWaveform,   \* len(loadedWaveform)
    trainingOngoing,
    statusMessage,
    cancelTraining,   \* "nil" before the first make, then "chan"; "closed"
                      \* after close(cancelTraining)
    bitDepth,
    sampleRate,
    uiPc,             \* where the UI thread is
    opt,              \* opt[p]: the locals of goroutine p
    calc              \* one call of a function of main.go on its own: its
                      \* arguments, and its result once it has returned

vars == <<populationSize, eliteCount, revision, activePadIndex, pads, heap,
          loadedWaveform, trainingOngoing, statusMessage, cancelTraining,
          bitDepth, sampleRate, uiPc, opt, calc>>

config == <<populationSize, eliteCount, revision, calc>>
audio == <<bitDepth, sampleRate>>

(***************************************************************************)
(* Status messages.                                                        *)
(***************************************************************************)
Msg(kind, generation, fitness) ==
    [kind |-> kind, generation |-> generation, fitness |-> fitness]
MsgEmpty == Msg("", 0, 0)
MsgNoWav == Msg("Error: No .wav file loaded", 0, 0)
MsgStarted == Msg("Training started...", 0, 0)
MsgCanceled == Msg("Training canceled.", 0, 0)
MsgOptimum(generation) == Msg("Global optimum found", generation, 0)
MsgStagnant == Msg("Training stopped due to no improvement", maxStagnation, 0)
MsgProgress(generation, fitness) == Msg("Generation: Best fitness", generation, fitness)

(***************************************************************************)
(* The heap.                                                               *)
(***************************************************************************)
\* Addresses some pad slot or some goroutine's bestSettings holds.
Refs(ps, o) ==
    ({ps[i] : i \in Pads} \cup {o[p].bestSettings : p \in Procs}) \ {0}

\* The lowest address nothing in `used` holds.
FreshAddr(used) == CHOOSE a \in Addr \ used : \A b \in Addr \ used : a <= b

\* The address held by the k-th reference: the pad slots in order, then
\* the goroutines' bestSettings.
RefAddr(ps, o, k) == IF k <= numPads THEN ps[k - 1] ELSE o[k - numPads].bestSettings

\* An address means nothing beyond which references share it.  Canon
\* renames every object to the position of the first reference that holds
\* it, and drops the objects nothing refers to (Go's garbage collector).
Canon(h, ps, o) ==
    LET first(a) == CHOOSE k \in Addr :
                        /\ RefAddr(ps, o, k) = a
                        /\ \A j \in 1..(k - 1) : RefAddr(ps, o, j) # a
        held(b) == RefAddr(ps, o, b)
    IN  [pads |-> [i \in Pads |-> first(ps[i])],
         opt  |-> [p \in Procs |->
                     IF o[p].bestSettings = 0 THEN o[p]
                     ELSE [o[p] EXCEPT !.bestSettings = first(@)]],
         heap |-> [b \in Addr |->
                     IF held(b) # 0 /\ first(held(b)) = b
                     THEN h[held(b)]
                     ELSE Null]]

(***************************************************************************)
(* A goroutine's locals.                                                   *)
(***************************************************************************)
NoRun ==
    [pc |-> "none", generation |-> 0, population |-> <<>>, fitnesses |-> <<>>,
     newPopulation |-> <<>>, bestSettings |-> 0, bestFitness |-> 0,
     stagnationCount |-> 0, outcome |-> "", lastImproved |-> -1]

Active(p) == opt[p].pc \notin {"none", "done"}

\* The pointers and the objects after a step that changed them.
Store(h, ps, o) ==
    \E c \in {Canon(h, ps, o)} :
        heap' = c.heap /\ pads' = c.pads /\ opt' = c.opt

(***************************************************************************)
(* Operators of the search.                                                *)
(***************************************************************************)
\* What one `if rand.Float64() < mutationRate { cfg.X = clamp(cfg.X *
\* (0.8 + rand.Float64()*0.4), minX, maxX) }` can leave in cfg.X: the old
\* value, or a value at most one level away, clamped.
MutatedGene(v) ==
    {v} \cup {clamp(w, minAttack, maxAttack) : w \in (v - 1)..(v + 1)}

\* The fields of synth.Settings the search evolves.  A settings value of
\* the model carries the genes its record has: Attack alone where it stands
\* for all the continuous genes, or each gene by its own name.
ContinuousGenes ==
    {"Attack", "Decay", "Sustain", "Release", "Drive", "FilterCutoff",
     "Sweep", "PitchDecay", "NoiseAmount"}
Genes == ContinuousGenes \cup {"WaveformType"}

\* `rand.Intn(2)` and `rand.Intn(7)`: the waveform types a mutation draws
\* from.
basicWaveformTypes == 2
allWaveformTypes == 7

\* What the mutation of WaveformType can leave in it: the old value, or
\* `rand.Intn(2)` without allWaveforms, `rand.Intn(7)` with it.
MutatedWaveform(v, allWaveforms) ==
    {v} \cup (IF allWaveforms THEN 0..(allWaveformTypes - 1)
                             ELSE 0..(basicWaveformTypes - 1))

\* What mutateSettings can leave in gene f of cfg.
Mutated(cfg, f, allWaveforms) ==
    IF f = "WaveformType" THEN MutatedWaveform(cfg[f], allWaveforms)
    ELSE MutatedGene(cfg[f])

\* func mutateSettings(cfg *synth.Settings, allWaveforms bool): each gene
\* mutated or not by its own draw; the other fields stay.
mutateSettings(cfg, allWaveforms) ==
    LET genes == DOMAIN cfg \cap Genes
        values == UNION {Mutated(cfg, f, allWaveforms) : f \in genes}
        draws == {m \in [genes -> values] :
                    \A f \in genes : m[f] \in Mutated(cfg, f, allWaveforms)}
    IN  {[f \in DOMAIN cfg |-> IF f \in genes THEN m[f] ELSE cfg[f]] :
            m \in draws}

\* The clamps applied to a new individual and to a mutated child.
ClampSettings(cfg) ==
    [cfg EXCEPT !.Attack = clamp(cfg.Attack, minAttack, maxAttack)]

\* A crossover with one cut point: the genes from the cut on are swapped.
GeneOrder ==
    <<"Attack", "Decay", "Sustain", "Release", "Drive", "FilterCutoff",
      "Sweep", "PitchDecay", "WaveformType", "NoiseAmount">>

singlePointCrossoverAtCut(parent1, parent2) ==
    {<<[f \in DOMAIN parent1 |->
          IF \E i \in cut..Len(GeneOrder) : GeneOrder[i] = f
          THEN parent2[f] ELSE parent1[f]],
       [f \in DOMAIN parent2 |->
          IF \E i \in cut..Len(GeneOrder) : GeneOrder[i] = f
          THEN parent1[f] ELSE parent2[f]]>> :
        cut \in 1..(Len(GeneOrder) + 1)}

\* A crossover that takes the genes of parent2 into child1 and leaves child2
\* a copy of parent2.
singlePointCrossoverOneWay(parent1, parent2) ==
    {<<[f \in DOMAIN parent1 |->
          IF f \in taken THEN parent2[f] ELSE parent1[f]],
       parent2>> :
        taken \in SUBSET (DOMAIN parent1 \cap Genes)}

\* func singlePointCrossover(parent1, parent2): copies of the parents, each
\* gene swapped between them or not.
singlePointCrossover(parent1, parent2) ==
    LET child1 == CopySettings(parent1)
        child2 == CopySettings(parent2)
    IN  {<<[f \in DOMAIN child1 |->
               IF f \in swapped THEN parent2[f] ELSE child1[f]],
           [f \in DOMAIN child2 |->
               IF f \in swapped THEN parent1[f] ELSE child2[f]]>> :
            swapped \in SUBSET (DOMAIN parent1 \cap Genes)}

\* A tournament loop in which a competitor with the same fitness replaces
\* the best so far as well.
RECURSIVE TournamentLoopLastWins(_, _, _, _)
TournamentLoopLastWins(fitnesses, draws, i, bestIndex) ==
    IF i > Len(draws) THEN bestIndex
    ELSE TournamentLoopLastWins(fitnesses, draws, i + 1,
                                IF fitnesses[draws[i]] <= fitnesses[bestIndex]
                                THEN draws[i] ELSE bestIndex)

\* The loop of tournamentSelection over the competitors drawn after the
\* first: a competitor replaces the best so far only with a lower fitness.
RECURSIVE TournamentLoop(_, _, _, _)
TournamentLoop(fitnesses, draws, i, bestIndex) ==
    IF i > Len(draws) THEN bestIndex
    ELSE TournamentLoop(fitnesses, draws, i + 1,
                        IF fitnesses[draws[i]] < fitnesses[bestIndex]
                        THEN draws[i] ELSE bestIndex)

\* func tournamentSelection(population, fitnesses, tournamentSize): every
\* individual some sequence of draws returns.
tournamentSelection(population, fitnesses) ==
    {population[TournamentLoop(fitnesses, draws, 2, draws[1])] :
        draws \in [1..tournamentSize -> 1..Len(population)]}

\* The index tournamentSelection ends with when rand.Intn returns `draws`,
\* one after the other.
TournamentIndex(fitnesses, draws) ==
    TournamentLoop(fitnesses, draws, 2, draws[1])

\* The scan for the best individual of the generation: the first index with
\* the lowest fitness, -1 when no fitness is below +Inf.
RECURSIVE BestIndexLoop(_, _, _, _)
BestIndexLoop(fitnesses, i, currentBestFitness, currentBestIndex) ==
    IF i > Len(fitnesses) THEN currentBestIndex
    ELSE IF fitnesses[i] < currentBestFitness
         THEN BestIndexLoop(fitnesses, i + 1, fitnesses[i], i)
         ELSE BestIndexLoop(fitnesses, i + 1, currentBestFitness, currentBestIndex)

CurrentBestIndex(fitnesses) == BestIndexLoop(fitnesses, 1, Inf, -1)

\* No call is being looked at on its own.
NoCalc == [op |-> "none"]

(***************************************************************************)
(* Initial state: main() has filled the pads with random settings; no      *)
(* .wav is loaded and nothing is running.  optimizeSettings never reads a  *)
(* pad, so one draw of the pads is taken: every gene at minAttack.         *)
(***************************************************************************)
InitialPads ==
    {cfg \in NewRandom(sampleRates[1], defaultBitDepth) : cfg.Attack = minAttack}

InitGlobals ==
    /\ activePadIndex = 0
    /\ pads = [i \in Pads |-> i + 1]
    /\ bitDepth = defaultBitDepth
    /\ sampleRate = sampleRates[1]
    /\ heap \in [Addr -> InitialPads \cup {Null}]
    /\ \A a \in Addr : heap[a] = Null <=> a > numPads
    /\ loadedWaveform = 0
    /\ trainingOngoing = FALSE
    /\ statusMessage = MsgEmpty
    /\ cancelTraining = "nil"
    /\ uiPc = "ready"
    /\ opt = [p \in Procs |-> NoRun]

Init ==
    /\ populationSize = RunPopulation
    /\ eliteCount = RunElite
    /\ revision = "1.2.0"
    /\ InitGlobals
    /\ calc = NoCalc

(***************************************************************************)
(* The UI thread.  A handler runs to its end before the next one starts;   *)
(* uiPc is "ready" between handlers.                                       *)
(***************************************************************************)
\* len(buffer.Data) of a file that decodes: 0 for one without samples.
WavLens == 0..1

\* "Load WAV": loadWavFile() succeeds and replaces the waveform.
LoadWav ==
    /\ uiPc = "ready"
    /\ \E n \in WavLens : loadedWaveform' = n
    /\ statusMessage' = Msg("Loaded .wav file", 0, 0)
    /\ UNCHANGED <<config, activePadIndex, pads, heap, trainingOngoing,
                   cancelTraining, audio, uiPc, opt>>

\* The goroutine slot `go optimizeSettings(...)` takes: the lowest one with
\* no goroutine in it.
FreeSlot == CHOOSE p \in Procs : ~Active(p) /\ \A q \in Procs : ~Active(q) => p <= q

\* A start that makes the channel once and keeps it for the later runs.
LaunchOnOldChannel ==
    /\ \E p \in Procs : ~Active(p)
    /\ cancelTraining' = IF cancelTraining = "nil" THEN "chan" ELSE cancelTraining
    /\ trainingOngoing' = TRUE
    /\ Store(heap, pads, [opt EXCEPT ![FreeSlot] = [NoRun EXCEPT !.pc = "start"]])
    /\ UNCHANGED <<config, activePadIndex, loadedWaveform, statusMessage,
                   audio, uiPc>>

\* The body of the start handler behind its guard.
Launch ==
    /\ \E p \in Procs : ~Active(p)
    /\ cancelTraining' = "chan"
    /\ trainingOngoing' = TRUE
    /\ Store(heap, pads, [opt EXCEPT ![FreeSlot] = [NoRun EXCEPT !.pc = "start"]])
    /\ UNCHANGED <<config, activePadIndex, loadedWaveform, statusMessage,
                   audio, uiPc>>

\* A start handler without its guard.
StartUnguarded == TRUE

\* Whether the start handler goes on: `if !trainingOngoing`.
StartAccepted == ~trainingOngoing

\* "Find sound similar to WAV".  The button exists while a waveform is loaded.
ClickStart ==
    /\ uiPc = "ready"
    /\ loadedWaveform > 0
    /\ IF StartAccepted THEN Launch ELSE UNCHANGED vars

\* "Stop training", first half: `if trainingOngoing`.
StopCheck ==
    /\ uiPc = "ready"
    /\ loadedWaveform > 0
    /\ uiPc' = IF trainingOngoing THEN "stopChecked" ELSE "ready"
    /\ UNCHANGED <<config, activePadIndex, pads, heap, loadedWaveform,
                   trainingOngoing, statusMessage, cancelTraining, audio, opt>>

\* A panic on the UI thread ends the process, and every goroutine with it.
Killed(o) ==
    [p \in Procs |->
       IF o[p].pc \in {"none", "done"} THEN o[p]
       ELSE [o[p] EXCEPT !.pc = "done", !.outcome = "Killed", !.population = <<>>,
                         !.fitnesses = <<>>, !.newPopulation = <<>>]]

\* "Stop training", second half.  Up to 1.5.0 `cancelTraining <- true` on an
\* unbuffered channel: the UI thread stays in the send until a goroutine
\* receives.  In 1.5.4 `close(cancelTraining)`, which panics on a channel
\* that is closed already.
StopSend ==
    /\ uiPc = "stopChecked"
    /\ IF revision # "1.5.4"
       THEN /\ uiPc' = "sending"
            /\ UNCHANGED <<cancelTraining, opt>>
       ELSE IF cancelTraining = "chan"
       THEN /\ uiPc' = "ready"
            /\ cancelTraining' = "closed"
            /\ UNCHANGED opt
       ELSE /\ uiPc' = "panic"
            /\ opt' = Killed(opt)
            /\ UNCHANGED cancelTraining
    /\ UNCHANGED <<config, activePadIndex, pads, heap, loadedWaveform,
                   trainingOngoing, statusMessage, audio>>

\* A click on a pad.
SelectPad(i) ==
    /\ uiPc = "ready"
    /\ statusMessage' = MsgEmpty
    /\ activePadIndex' = i
    /\ UNCHANGED <<config, pads, heap, loadedWaveform, trainingOngoing,
                   cancelTraining, audio, uiPc, opt>>

\* "Mutate" under a pad: mutateSettings(pads[padIndex], true), in place.
MutatePad(i) ==
    /\ uiPc = "ready"
    /\ \E cfg \in mutateSettings(heap[pads[i]], TRUE) :
           heap' = [heap EXCEPT ![pads[i]] = cfg]
    /\ activePadIndex' = i
    /\ UNCHANGED <<config, pads, loadedWaveform, trainingOngoing, statusMessage,
                   cancelTraining, audio, uiPc, opt>>

\* The Attack slider of the selected pad, `g.SliderFloat(&attack, 0.0, 1.0)`:
\* its range reaches below minAttack and above maxAttack.  OnChange writes
\* into the object pads[activePadIndex] points to.
SliderAttack == RawAttack

MoveSlider(v) ==
    /\ uiPc = "ready"
    /\ heap' = [heap EXCEPT ![pads[activePadIndex]].Attack = v]
    /\ UNCHANGED <<config, activePadIndex, pads, loadedWaveform, trainingOngoing,
                   statusMessage, cancelTraining, audio, uiPc, opt>>

\* The "Sample Rate" combo: `sampleRate = sampleRates[sampleRateIndex]`.
SelectSampleRate(r) ==
    /\ uiPc = "ready"
    /\ sampleRate' = r
    /\ UNCHANGED <<config, activePadIndex, pads, heap, loadedWaveform,
                   trainingOngoing, statusMessage, cancelTraining, bitDepth,
                   uiPc, opt>>

\* "Randomize all": randomizeAllPads() puts a new object in every slot.
RandomizeAll ==
    /\ uiPc = "ready"
    /\ \E new \in [Pads -> NewRandom(sampleRate, bitDepth)] :
         \* the objects the goroutines hold move out of the pads' way
         LET o == [p \in Procs |->
                     IF opt[p].bestSettings = 0 THEN opt[p]
                     ELSE [opt[p] EXCEPT !.bestSettings = numPads + p]]
             h == [a \in Addr |->
                     IF a <= numPads THEN new[a - 1]
                     ELSE IF opt[a - numPads].bestSettings = 0 THEN Null
                     ELSE heap[opt[a - numPads].bestSettings]]
         IN  Store(h, [i \in Pads |-> i + 1], o)
    /\ UNCHANGED <<config, activePadIndex, loadedWaveform, trainingOngoing,
                   statusMessage, cancelTraining, audio, uiPc>>

(***************************************************************************)
(* optimizeSettings, one goroutine p.  pc follows the function's text:     *)
(*   start   the precondition and the initialization                       *)
(*   check   the loop condition and the select on cancelTraining           *)
(*   eval    the fitness of each individual, in order of index             *)
(*   update  the comparison with the global best, the terminal tests       *)
(*   elites  the copies of bestSettings that open the new population       *)
(*   pairs   selection, crossover and mutation until the population is     *)
(*           full, then the trim and the status message                    *)
(*   done    the goroutine has returned                                    *)
(***************************************************************************)
\* The locals of a goroutine that has returned; its slices are garbage.
Finished(r, outcome) ==
    [r EXCEPT !.pc = "done", !.outcome = outcome, !.population = <<>>,
              !.fitnesses = <<>>, !.newPopulation = <<>>]

\* A new individual of the initial population: NewRandom, then the clamps.
InitialIndividuals ==
    {ClampSettings(cfg) : cfg \in NewRandom(sampleRate, bitDepth)}

\* `const allWaveforms = true` of the start handler: the mode of every run
\* the program starts.
allWaveforms == TRUE

\* The waveform types are followed through a run when calc holds the call
\* optimizeSettings(allWaveforms) with its argument; the individuals of
\* other runs carry their continuous genes only.
TracksWaveform == calc.op = "optimizeSettings"

\* The parameter allWaveforms of the run.
RunMode == IF TracksWaveform THEN calc.allWaveforms ELSE allWaveforms

\* `population[i].WaveformType = rand.Intn(2)` without allWaveforms,
\* `rand.Intn(7)` with it.
InitialWaveformTypes(mode) ==
    IF mode THEN 0..(allWaveformTypes - 1) ELSE 0..(basicWaveformTypes - 1)

\* The individuals of the initial population.
StartIndividuals ==
    IF TracksWaveform
    THEN {[f \in DOMAIN cfg \cup {"WaveformType"} |->
             IF f = "WaveformType" THEN w ELSE cfg[f]] :
            cfg \in InitialIndividuals, w \in InitialWaveformTypes(RunMode)}
    ELSE InitialIndividuals

\* What compareWaveformsSafe can return for an individual.  The rendering
\* comes from the synth package and the target from loadedWaveform, which
\* the UI may reload at any time: every score is possible, +Inf for a
\* rendering that fails.
compareWaveformsSafe(individual) == Scores

\* synth.Resample(loadedWaveform, originalSampleRate, sampleRate): a longer
\* waveform for a higher rate, an empty one stays empty.
Resample(waveform) ==
    IF waveform = 0 THEN 0
    ELSE IF waveform < MaxWaveLen THEN waveform + 1 ELSE MaxWaveLen

\* loadedWaveform after compareWaveformsSafe has returned `score`.  1.2.0
\* only reads it.  Later revisions assign it the resampled waveform when
\* sampleRate is not 44100, unless Generate failed first (score +Inf).
TargetAfter(score) ==
    IF revision = "1.2.0" \/ sampleRate = originalSampleRate
    THEN {loadedWaveform}
    ELSE {Resample(loadedWaveform)}
         \cup (IF score = Inf THEN {loadedWaveform} ELSE {})

\* The precondition, the initial population, bestSettings and bestFitness.
OptStart(p) ==
    /\ opt[p].pc = "start"
    /\ IF loadedWaveform = 0
       THEN /\ statusMessage' = MsgNoWav
            /\ opt' = [opt EXCEPT ![p] = Finished(@, "Rejected")]
            /\ UNCHANGED <<heap, pads, loadedWaveform>>
       ELSE /\ statusMessage' = MsgStarted
            /\ \E population \in [1..populationSize -> StartIndividuals] :
               \E bestFitness \in compareWaveformsSafe(population[1]) :
                 LET addr == FreshAddr(Refs(pads, opt))
                 IN  /\ loadedWaveform' \in TargetAfter(bestFitness)
                     /\ Store([heap EXCEPT ![addr] = CopySettings(population[1])],
                              pads,
                              [opt EXCEPT ![p] =
                                 [@ EXCEPT !.pc = "check",
                                           !.population = population,
                                           !.bestSettings = addr,
                                           !.bestFitness = bestFitness]])
    /\ UNCHANGED <<config, activePadIndex, trainingOngoing,
                   cancelTraining, audio, uiPc>>

\* A loop condition without the bound on the generations.
LoopConditionUnbounded(p) == trainingOngoing

\* `generation < maxGenerations && trainingOngoing`
LoopCondition(p) == opt[p].generation < maxGenerations /\ trainingOngoing

\* The loop is left: `pads[activePadIndex] = bestSettings`, and return.
LoopExit(p) ==
    /\ opt[p].pc = "check"
    /\ ~LoopCondition(p)
    /\ Store(heap, [pads EXCEPT ![activePadIndex] = opt[p].bestSettings],
             [opt EXCEPT ![p] = Finished(@, "Exhausted")])
    /\ UNCHANGED <<config, activePadIndex, loadedWaveform, trainingOngoing,
                   statusMessage, cancelTraining, audio, uiPc>>

\* `case <-cancelTraining:` can proceed: a sender waits in its send, or the
\* channel is closed.
CancelReady == uiPc = "sending" \/ cancelTraining = "closed"

\* The pc values inside the generation loop, and those past the select.
LoopPcs == {"check", "eval", "update", "elites", "pairs"}
MidGeneration == LoopPcs \ {"check"}

\* A receive that is tried at every step of the loop, not only at its head.
ReceiveCancelAnywhere(p) ==
    /\ opt[p].pc \in LoopPcs
    /\ LoopCondition(p)
    /\ CancelReady
    /\ uiPc' = IF uiPc = "sending" THEN "ready" ELSE uiPc
    /\ statusMessage' = MsgCanceled
    /\ trainingOngoing' = FALSE
    /\ opt' = [opt EXCEPT ![p] = Finished(@, "Cancelled")]
    /\ UNCHANGED <<config, activePadIndex, pads, heap, loadedWaveform,
                   cancelTraining, audio>>

\* `case <-cancelTraining:` the receive proceeds, and a waiting sender goes
\* on.
ReceiveCancel(p) ==
    /\ opt[p].pc = "check"
    /\ LoopCondition(p)
    /\ CancelReady
    /\ uiPc' = IF uiPc = "sending" THEN "ready" ELSE uiPc
    /\ statusMessage' = MsgCanceled
    /\ trainingOngoing' = FALSE
    /\ opt' = [opt EXCEPT ![p] = Finished(@, "Cancelled")]
    /\ UNCHANGED <<config, activePadIndex, pads, heap, loadedWaveform,
                   cancelTraining, audio>>

\* `default:` the receive cannot proceed, the generation begins.
BeginGeneration(p) ==
    /\ opt[p].pc = "check"
    /\ LoopCondition(p)
    /\ ~CancelReady
    /\ opt' = [opt EXCEPT ![p].pc = "eval", ![p].fitnesses = <<>>]
    /\ UNCHANGED <<config, activePadIndex, pads, heap, loadedWaveform,
                   trainingOngoing, statusMessage, cancelTraining, audio, uiPc>>

\* `fitnesses[i] = compareWaveformsSafe(individual)` for the next individual.
EvalOne(p) ==
    /\ opt[p].pc = "eval"
    /\ LET i == Len(opt[p].fitnesses) + 1
       IN  \E f \in compareWaveformsSafe(opt[p].population[i]) :
             /\ loadedWaveform' \in TargetAfter(f)
             /\ opt' = [opt EXCEPT ![p].fitnesses = Append(@, f),
                                   ![p].pc = IF i = Len(opt[p].population)
                                             THEN "update" ELSE "eval"]
    /\ UNCHANGED <<config, activePadIndex, pads, heap,
                   trainingOngoing, statusMessage, cancelTraining, audio, uiPc>>

\* An update test that takes the best of every generation.
ImprovedAlways(r) == CurrentBestIndex(r.fitnesses) # -1

\* `currentBestIndex != -1 && fitnesses[currentBestIndex] < bestFitness`
Improved(r) ==
    LET currentBestIndex == CurrentBestIndex(r.fitnesses)
    IN  currentBestIndex # -1 /\ r.fitnesses[currentBestIndex] < r.bestFitness

\* `bestFitness < 1e-3`
Converged(bestFitness) == bestFitness < convergenceThreshold

\* A stagnation test that never fires.
StagnatedNever(stagnationCount) == FALSE

\* A stagnation test that fires one generation later.
StagnatedLate(stagnationCount) == stagnationCount > maxStagnation

\* `stagnationCount >= maxStagnation`
Stagnated(stagnationCount) == stagnationCount >= maxStagnation

\* A better individual was found: it becomes bestSettings and goes to the
\* active pad; the run ends if it is below the threshold.
UpdateBest(p) ==
    /\ opt[p].pc = "update"
    /\ Improved(opt[p])
    /\ LET r == opt[p]
           currentBestIndex == CurrentBestIndex(r.fitnesses)
           bestFitness == r.fitnesses[currentBestIndex]
           addr == FreshAddr(Refs(pads, [opt EXCEPT ![p].bestSettings = 0]))
           best == [CopySettings(r.population[currentBestIndex])
                       EXCEPT !.SampleRate = sampleRate, !.BitDepth = bitDepth]
           r1 == [r EXCEPT !.bestFitness = bestFitness, !.bestSettings = addr,
                           !.stagnationCount = 0, !.lastImproved = r.generation]
           ps == [pads EXCEPT ![activePadIndex] = addr]
           h == [heap EXCEPT ![addr] = best]
       IN  IF Converged(bestFitness)
           THEN /\ statusMessage' = MsgOptimum(r.generation)
                /\ trainingOngoing' = FALSE
                /\ Store(h, ps, [opt EXCEPT ![p] = Finished(r1, "Converged")])
           ELSE /\ Store(h, ps, [opt EXCEPT ![p] = [r1 EXCEPT !.pc = "elites"]])
                /\ UNCHANGED <<statusMessage, trainingOngoing>>
    /\ UNCHANGED <<config, activePadIndex, loadedWaveform, cancelTraining,
                   audio, uiPc>>

\* No better individual: the stagnation counter goes up, and the run ends
\* when it reaches maxStagnation.
NoImprovement(p) ==
    /\ opt[p].pc = "update"
    /\ ~Improved(opt[p])
    /\ LET r1 == [opt[p] EXCEPT !.stagnationCount = @ + 1]
       IN  IF Stagnated(r1.stagnationCount)
           THEN /\ statusMessage' = MsgStagnant
                /\ trainingOngoing' = FALSE
                /\ opt' = [opt EXCEPT ![p] = Finished(r1, "Stagnant")]
           ELSE /\ opt' = [opt EXCEPT ![p] = [r1 EXCEPT !.pc = "elites"]]
                /\ UNCHANGED <<statusMessage, trainingOngoing>>
    /\ UNCHANGED <<config, activePadIndex, pads, heap, loadedWaveform,
                   cancelTraining, audio, uiPc>>

\* `for i := 0; i < eliteCount && i < populationSize; i++`: that many
\* copies of bestSettings.
Elites(best) ==
    [i \in 1..(IF eliteCount < populationSize THEN eliteCount ELSE populationSize)
       |-> CopySettings(best)]

BuildElites(p) ==
    /\ opt[p].pc = "elites"
    /\ opt' = [opt EXCEPT ![p].newPopulation = Elites(heap[opt[p].bestSettings]),
                          ![p].pc = "pairs"]
    /\ UNCHANGED <<config, activePadIndex, pads, heap, loadedWaveform,
                   trainingOngoing, statusMessage, cancelTraining, audio, uiPc>>

\* A loop that mutates every child with all the waveform types.
MutationModeAll(mode) == TRUE

\* The mode the loop hands to mutateSettings for a child of a run in mode
\* `mode`: `mutateSettings(child1, allWaveforms)` in 1.5.0,
\* `mutateSettings(child1, false)` in 1.2.0 and 1.5.4.
MutationMode(mode) == IF revision = "1.5.0" THEN mode ELSE FALSE

\* The clamps on a mutated child; 1.5.0 has none.
ClampChild(child) == IF revision = "1.5.0" THEN child ELSE ClampSettings(child)

\* One pass of `for len(newPopulation) < populationSize`: two parents, two
\* children, both mutated, clamped and appended.
BuildPair(p) ==
    /\ opt[p].pc = "pairs"
    /\ Len(opt[p].newPopulation) < populationSize
    /\ \E parent1 \in tournamentSelection(opt[p].population, opt[p].fitnesses) :
       \E parent2 \in tournamentSelection(opt[p].population, opt[p].fitnesses) :
       \E children \in singlePointCrossover(parent1, parent2) :
       \E child1 \in mutateSettings(children[1], MutationMode(RunMode)) :
       \E child2 \in mutateSettings(children[2], MutationMode(RunMode)) :
         opt' = [opt EXCEPT ![p].newPopulation =
                   @ \o <<ClampChild(child1), ClampChild(child2)>>]
    /\ UNCHANGED <<config, activePadIndex, pads, heap, loadedWaveform,
                   trainingOngoing, statusMessage, cancelTraining, audio, uiPc>>

\* No trim at all.
TrimNone(newPopulation) == newPopulation

\* `if len(newPopulation) > populationSize { newPopulation =
\* newPopulation[:populationSize] }`
Trim(newPopulation) ==
    IF Len(newPopulation) > populationSize
    THEN SubSeq(newPopulation, 1, populationSize)
    ELSE newPopulation

\* The new population replaces the old one, the status message tells the
\* generation, and generation++.
BuildFinish(p) ==
    /\ opt[p].pc = "pairs"
    /\ Len(opt[p].newPopulation) >= populationSize
    /\ statusMessage' = MsgProgress(opt[p].generation, opt[p].bestFitness)
    /\ opt' = [opt EXCEPT ![p].population = Trim(opt[p].newPopulation),
                          ![p].newPopulation = <<>>,
                          ![p].fitnesses = <<>>,
                          ![p].generation = @ + 1,
                          ![p].pc = "check"]
    /\ UNCHANGED <<config, activePadIndex, pads, heap, loadedWaveform,
                   trainingOngoing, cancelTraining, audio, uiPc>>

Next ==
    \/ LoadWav
    \/ ClickStart
    \/ StopCheck
    \/ StopSend
    \/ \E p \in Procs : OptStart(p)
    \/ \E p \in Procs : LoopExit(p)
    \/ \E p \in Procs : ReceiveCancel(p)
    \/ \E p \in Procs : BeginGeneration(p)
    \/ \E p \in Procs : EvalOne(p)
    \/ \E p \in Procs : UpdateBest(p)
    \/ \E p \in Procs : NoImprovement(p)
    \/ \E p \in Procs : BuildElites(p)
    \/ \E p \in Procs : BuildPair(p)
    \/ \E p \in Procs : BuildFinish(p)

Spec == Init /\ [][Next]_vars

(***************************************************************************)
(* SpecSizes: the same program for every population size and elite count.  *)
(***************************************************************************)
InitSizes ==
    /\ populationSize \in 1..MaxPopulation
    /\ eliteCount \in 0..MaxElite
    /\ revision = "1.2.0"
    /\ InitGlobals
    /\ calc = NoCalc

SpecSizes == InitSizes /\ [][Next]_vars

(***************************************************************************)
(* SpecPads: the program with the pad buttons in use as well, for the      *)
(* smallest population.                                                    *)
(***************************************************************************)
InitPads ==
    /\ populationSize = 1
    /\ eliteCount = 0
    /\ revision = "1.2.0"
    /\ InitGlobals
    /\ calc = NoCalc

NextPads ==
    \/ Next
    \/ \E i \in Pads : SelectPad(i)
    \/ \E i \in Pads : MutatePad(i)
    \/ \E v \in SliderAttack : MoveSlider(v)
    \/ RandomizeAll

SpecPads == InitPads /\ [][NextPads]_vars

(***************************************************************************)
(* SpecRevisions: each revision of main.go, with the sample rate combo in  *)
(* use.                                                                    *)
(***************************************************************************)
InitRevisions ==
    /\ populationSize = 1
    /\ eliteCount = 0
    /\ revision \in Revisions
    /\ InitGlobals
    /\ calc = NoCalc

NextRevisions ==
    \/ Next
    \/ \E i \in DOMAIN sampleRates : SelectSampleRate(sampleRates[i])

SpecRevisions == InitRevisions /\ [][NextRevisions]_vars

(***************************************************************************)
(* SpecSliders: Spec with the sliders of the selected pad in use.          *)
(***************************************************************************)
NextSliders ==
    \/ Next
    \/ \E v \in SliderAttack : MoveSlider(v)

SpecSliders == Init /\ [][NextSliders]_vars

(***************************************************************************)
(* The fitness function on its own.  A waveform is a slice: its samples,   *)
(* and whether it is the nil slice (which has none); a score is the        *)
(* float64 the code computes, kept as the fraction num/den: den = 0 is     *)
(* +Inf when num is not 0, and NaN when it is.                             *)
(***************************************************************************)
MaxSamples == 2
    \* samples of a waveform; the transform below is exact up to 4
MaxGene == 2
    \* Attack, Decay and Release are 0..MaxGene units of time each
Samples == {-1, 0, 1}
Slice(data) == [nil |-> FALSE, data |-> data]
Nil == [nil |-> TRUE, data |-> <<>>]
Waveforms == {Slice(data) : data \in UNION {[1..n -> Samples] : n \in 0..MaxSamples}}

\* The duration window, in the units of MaxGene.
minSampleDuration == 2
maxSampleDuration == 4

PosInf == [num |-> 1, den |-> 0]
NaN == [num |-> 0, den |-> 0]
Float(n) == [num |-> n, den |-> 1]
IsNaN(x) == x.den = 0 /\ x.num = 0
IsInf(x) == x.den = 0 /\ x.num # 0
IsZero(x) == x.den # 0 /\ x.num = 0

\* `mse / float64(n)` for a sum of squares: 0/0 is NaN, x/0 is +Inf.
Quot(sum, count) ==
    IF count = 0 THEN (IF sum = 0 THEN NaN ELSE PosInf)
    ELSE [num |-> sum, den |-> count]

\* `0.5 * x`
Half(x) == IF x.den = 0 THEN x ELSE [num |-> x.num, den |-> 2 * x.den]

\* `x + y` for scores that are not negative.
Add(x, y) ==
    IF IsNaN(x) \/ IsNaN(y) THEN NaN
    ELSE IF IsInf(x) \/ IsInf(y) THEN PosInf
    ELSE [num |-> x.num * y.den + y.num * x.den, den |-> x.den * y.den]

\* f[1] + ... + f[n]
RECURSIVE Sum(_, _)
Sum(f, n) == IF n = 0 THEN 0 ELSE f[n] + Sum(f, n - 1)

\* A difference taken as a sum.
DiffAsSum(a, b) == a + b

\* `diff := waveform1[i] - waveform2[i]`, `diff := mag1[i] - mag2[i]`
Diff(a, b) == a - b

\* func min(a, b int) int
min(a, b) == IF a < b THEN a ELSE b

\* func compareWaveforms(waveform1, waveform2 []float64) float64
compareWaveforms(waveform1, waveform2) ==
    IF waveform1.nil \/ waveform2.nil THEN PosInf
    ELSE LET minLength == IF Len(waveform2.data) < Len(waveform1.data)
                          THEN Len(waveform2.data) ELSE Len(waveform1.data)
             sq == [i \in 1..minLength |->
                      Diff(waveform1.data[i], waveform2.data[i])
                      * Diff(waveform1.data[i], waveform2.data[i])]
         IN  Quot(Sum(sq, minLength), minLength)

\* func nextPowerOfTwo(n int) int, for the lengths of a waveform, which are
\* far from the end of the int range (SpecPower has the loop on an int).
RECURSIVE PowerLoop(_, _)
PowerLoop(power, n) == IF power < n THEN PowerLoop(2 * power, n) ELSE power

nextPowerOfTwo(n) == IF n <= 0 THEN 1 ELSE PowerLoop(1, n)

\* `padded := make([]float64, n); copy(padded, waveform)`
Padded(waveform, n) ==
    [i \in 1..n |-> IF i <= Len(waveform.data) THEN waveform.data[i] ELSE 0]

\* (-i)^m as <<real part, imaginary part>>
Twiddle(m) ==
    LET r == m % 4
    IN  IF r = 0 THEN <<1, 0>> ELSE IF r = 1 THEN <<0, -1>>
        ELSE IF r = 2 THEN <<-1, 0>> ELSE <<0, 1>>

\* fft.FFTReal(padded) for n = 1, 2, 4: bin k is the sum of
\* padded[j] * exp(-2*pi*i*j*k/n), and exp(-2*pi*i/n) is a power of -i.
FFTReal(padded) ==
    LET n == Len(padded)
        step == 4 \div n
        w(j, k) == Twiddle(step * (j - 1) * (k - 1))
    IN  [k \in 1..n |->
           [re |-> Sum([j \in 1..n |-> padded[j] * w(j, k)[1]], n),
            im |-> Sum([j \in 1..n |-> padded[j] * w(j, k)[2]], n)]]

\* cmplx.Abs(z), rounded to the unit below as the code's is to a float64.
Abs(z) ==
    LET sq == z.re * z.re + z.im * z.im
    IN  CHOOSE r \in 0..sq : r * r <= sq /\ sq < (r + 1) * (r + 1)

\* func compareWaveformsFFT(waveform1, waveform2 []float64, sampleRate int)
compareWaveformsFFT(waveform1, waveform2, rate) ==
    IF waveform1.nil \/ waveform2.nil THEN PosInf
    ELSE LET n == nextPowerOfTwo(min(Len(waveform1.data), Len(waveform2.data)))
             complex1 == FFTReal(Padded(waveform1, n))
             complex2 == FFTReal(Padded(waveform2, n))
             sq == [i \in 1..n |->
                      Diff(Abs(complex1[i]), Abs(complex2[i]))
                      * Diff(Abs(complex1[i]), Abs(complex2[i]))]
         IN  Quot(Sum(sq, n), n)

\* A duration that counts the sustain as well.
expectedDurationWithSustain(individual) ==
    individual.Attack + individual.Decay + individual.Sustain + individual.Release

\* `expectedDuration := individual.Attack + individual.Decay +
\* individual.Release`
expectedDuration(individual) ==
    individual.Attack + individual.Decay + individual.Release

\* The value compareWaveformsSafe returns for an individual of which
\* individual.Generate returned `generated, err`, against the target
\* waveform.
combinedMSE(individual, generated, err, target) ==
    IF err THEN PosInf
    ELSE LET timeMSE == compareWaveforms(generated, target)
             freqMSE == compareWaveformsFFT(generated, target, sampleRate)
             mse == Add(Half(timeMSE), Half(freqMSE))
             d == expectedDuration(individual)
             low == IF d < minSampleDuration
                    THEN Add(mse, Float((minSampleDuration - d) * 1000))
                    ELSE mse
         IN  IF d > maxSampleDuration
             THEN Add(low, Float((d - maxSampleDuration) * 1000))
             ELSE low

\* The individuals, renderings and targets of SpecFitness.
Individuals ==
    [Attack : 0..MaxGene, Decay : 0..MaxGene, Sustain : 0..1,
     Release : 0..MaxGene]
Renderings ==
    {[generated |-> w, err |-> FALSE] : w \in Waveforms \cup {Nil}}
    \cup {[generated |-> Nil, err |-> TRUE]}
Targets == Waveforms \cup {Nil}

InitFitness ==
    /\ populationSize = RunPopulation
    /\ eliteCount = RunElite
    /\ revision = "1.2.0"
    /\ InitGlobals
    /\ calc \in [op : {"compareWaveformsSafe"}, individual : Individuals,
                 rendering : Renderings, target : Targets,
                 returned : {FALSE}, score : {NaN}]

\* One call of compareWaveformsSafe returns.
Evaluate ==
    /\ calc.op = "compareWaveformsSafe"
    /\ ~calc.returned
    /\ calc' = [calc EXCEPT
                  !.returned = TRUE,
                  !.score = combinedMSE(calc.individual,
                                        calc.rendering.generated,
                                        calc.rendering.err, calc.target)]
    /\ UNCHANGED <<populationSize, eliteCount, revision, activePadIndex, pads,
                   heap, loadedWaveform, trainingOngoing, statusMessage,
                   cancelTraining, audio, uiPc, opt>>

SpecFitness == InitFitness /\ [][Evaluate]_vars

(***************************************************************************)
(* SpecMutation: the mutation of one child inside the generation loop, for *)
(* each revision and each mode a run can be started in.                    *)
(***************************************************************************)
\* The children: Attack for the continuous genes, and the waveform type.
Children ==
    [Attack : minAttack..maxAttack, WaveformType : 0..(allWaveformTypes - 1)]

InitMutation ==
    /\ populationSize = RunPopulation
    /\ eliteCount = RunElite
    /\ revision \in Revisions
    /\ InitGlobals
    /\ calc \in [op : {"mutateSettings"}, mode : BOOLEAN, child : Children,
                 returned : {FALSE}, mutated : Children]
    /\ calc.mutated = calc.child

\* `mutateSettings(child1, ...)` as the loop of optimizeSettings calls it in
\* a run of mode calc.mode.
MutateChild ==
    /\ calc.op = "mutateSettings"
    /\ ~calc.returned
    /\ \E mutated \in mutateSettings(calc.child, MutationMode(calc.mode)) :
         calc' = [calc EXCEPT !.returned = TRUE, !.mutated = mutated]
    /\ UNCHANGED <<populationSize, eliteCount, revision, activePadIndex, pads,
                   heap, loadedWaveform, trainingOngoing, statusMessage,
                   cancelTraining, audio, uiPc, opt>>

SpecMutation == InitMutation /\ [][MutateChild]_vars

(***************************************************************************)
(* SpecCrossover: one call of singlePointCrossover on parents that carry   *)
(* each of the ten genes by name, and the sample rate and bit depth.       *)
(***************************************************************************)
\* A parent: every gene at the same value, 0 or 1.
Parents ==
    {[f \in Genes \cup {"SampleRate", "BitDepth"} |->
        IF f = "SampleRate" THEN sampleRates[r]
        ELSE IF f = "BitDepth" THEN defaultBitDepth
        ELSE v] : v \in 0..1, r \in 1..2}

InitCrossover ==
    /\ populationSize = RunPopulation
    /\ eliteCount = RunElite
    /\ revision = "1.2.0"
    /\ InitGlobals
    /\ calc \in [op : {"singlePointCrossover"}, parent1 : Parents,
                 parent2 : Parents, returned : {FALSE},
                 child1 : Parents, child2 : Parents]
    /\ calc.child1 = calc.parent1
    /\ calc.child2 = calc.parent2

\* `child1, child2 := singlePointCrossover(parent1, parent2)`
Cross ==
    /\ calc.op = "singlePointCrossover"
    /\ ~calc.returned
    /\ \E children \in singlePointCrossover(calc.parent1, calc.parent2) :
         calc' = [calc EXCEPT !.returned = TRUE, !.child1 = children[1],
                              !.child2 = children[2]]
    /\ UNCHANGED <<populationSize, eliteCount, revision, activePadIndex, pads,
                   heap, loadedWaveform, trainingOngoing, statusMessage,
                   cancelTraining, audio, uiPc, opt>>

SpecCrossover == InitCrossover /\ [][Cross]_vars

(***************************************************************************)
(* SpecTournament: one call of tournamentSelection, for every population   *)
(* of MaxPopulation individuals, every score of each and every sequence of *)
(* draws.                                                                  *)
(***************************************************************************)
InitTournament ==
    /\ populationSize = MaxPopulation
    /\ eliteCount = RunElite
    /\ revision = "1.2.0"
    /\ InitGlobals
    /\ calc \in [op : {"tournamentSelection"},
                 population : [1..MaxPopulation -> InitialIndividuals],
                 fitnesses : [1..MaxPopulation -> Scores],
                 draws : [1..tournamentSize -> 1..MaxPopulation],
                 returned : {FALSE}, bestIndex : {0},
                 best : InitialIndividuals]
    /\ calc.best = calc.population[1]

\* `parent1 := tournamentSelection(population, fitnesses, tournamentSize)`
\* with calc.draws as the values of rand.Intn.
Select ==
    /\ calc.op = "tournamentSelection"
    /\ ~calc.returned
    /\ \E bestIndex \in {TournamentIndex(calc.fitnesses, calc.draws)} :
         /\ calc.population[bestIndex]
              \in tournamentSelection(calc.population, calc.fitnesses)
         /\ calc' = [calc EXCEPT !.returned = TRUE, !.bestIndex = bestIndex,
                                 !.best = calc.population[bestIndex]]
    /\ UNCHANGED <<populationSize, eliteCount, revision, activePadIndex, pads,
                   heap, loadedWaveform, trainingOngoing, statusMessage,
                   cancelTraining, audio, uiPc, opt>>

SpecTournament == InitTournament /\ [][Select]_vars

(***************************************************************************)
(* SpecRates: Spec with the sample rate combo in use.                      *)
(***************************************************************************)
NextRates ==
    \/ Next
    \/ \E i \in DOMAIN sampleRates : SelectSampleRate(sampleRates[i])

SpecRates == Init /\ [][NextRates]_vars

(***************************************************************************)
(* SpecWaveforms: runs of optimizeSettings(allWaveforms) with the waveform *)
(* type of every individual followed: the basic runs in each revision with *)
(* the population of Spec, the extended runs, which have more types to     *)
(* tell apart, in 1.2.0 with the smallest population.                      *)
(***************************************************************************)
InitWaveforms ==
    /\ InitGlobals
    /\ calc \in [op : {"optimizeSettings"}, allWaveforms : BOOLEAN]
    /\ revision \in (IF calc.allWaveforms THEN {"1.2.0"} ELSE Revisions)
    /\ populationSize = IF calc.allWaveforms THEN 1 ELSE RunPopulation
    /\ eliteCount = IF calc.allWaveforms THEN 0 ELSE RunElite

SpecWaveforms == InitWaveforms /\ [][Next]_vars

(***************************************************************************)
(* SpecFair: Spec with the Go scheduler's guarantee that a goroutine that  *)
(* can take a step takes one.  No step of optimizeSettings waits for       *)
(* another thread: its select has a default case.                          *)
(***************************************************************************)
OptStep(p) ==
    \/ OptStart(p)
    \/ LoopExit(p)
    \/ ReceiveCancel(p)
    \/ BeginGeneration(p)
    \/ EvalOne(p)
    \/ UpdateBest(p)
    \/ NoImprovement(p)
    \/ BuildElites(p)
    \/ BuildPair(p)
    \/ BuildFinish(p)

SpecFair == Spec /\ \A p \in Procs : WF_vars(OptStep(p))

(***************************************************************************)
(* Properties.                                                             *)
(***************************************************************************)
\* The ways a run that passed its precondition ends.
Terminal == {"Converged", "Stagnant", "Cancelled", "Exhausted"}

\* The status messages that name the reason a run ended.
ReasonKinds == {MsgCanceled.kind, MsgOptimum(0).kind, MsgStagnant.kind}

Running == {p \in Procs : Active(p)}

\* The genome a goroutine holds as bestSettings, and the one in the active pad.
BestOf(h, o, p) == h[o[p].bestSettings]
ActivePad(h, ps, i) == h[ps[i]]

\* C1: at any time at most one optimizeSettings goroutine is active, and a
\* click on the start button while one is active launches nothing: the
\* goroutines, the channel and everything else stay as they are.
C1_SingleOptimizer ==
    /\ [](Cardinality(Running) <= 1)
    /\ [][(Running # {} /\ ClickStart) =>
             (opt' = opt /\ cancelTraining' = cancelTraining
                         /\ trainingOngoing' = trainingOngoing)]_vars

\* A run is in its second generation or later while the UI thread is free
\* and the start button's handler can be called.
C1_Witness ==
    \E p \in Procs : /\ Active(p)
                     /\ opt[p].generation >= 1
                     /\ trainingOngoing
                     /\ uiPc = "ready"
                     /\ loadedWaveform > 0

\* C2: whenever a run has ended, as Converged, Stagnant, Cancelled or
\* Exhausted, trainingOngoing is false again, so that the next start is
\* accepted.
C2_TerminalResetsFlag ==
    \A p \in Procs :
        (opt[p].pc = "done" /\ opt[p].outcome \in Terminal) => ~trainingOngoing

\* C3: a run that ends while a cancel request is waiting ends as Cancelled,
\* never as Stagnant, Converged or Exhausted.
C3_CancelEndsRunCancelled ==
    [][\A p \in Procs :
          (uiPc = "sending" /\ Active(p) /\ opt'[p].pc = "done")
              => opt'[p].outcome = "Cancelled"]_vars

\* C4: a cancel that comes when no run is active is a no-op: the handler
\* that has passed its check after the run ended returns, it does not enter
\* the send.
C4_CancelIsNoOpWhenIdle ==
    [][(Running = {} /\ uiPc = "stopChecked") => uiPc' # "sending"]_vars

\* C5 as stated: once a generation has passed its check it runs through to
\* the construction of the next population; no step inside it ends the run.
C5_GenerationAlwaysCompletes ==
    [][\A p \in Procs :
          opt[p].pc \in MidGeneration => opt'[p].pc # "done"]_vars

\* C5 amended: cancellation is looked at once per generation, at the loop
\* head and before any evaluation.  Past it, a waiting cancel request is
\* left waiting: all populationSize evaluations are made, and the generation
\* ends the run as Converged or Stagnant at its update or goes on to the
\* next loop head; the generation index moves only there, by one.
C5_CancelOnlyAtLoopHead ==
    /\ [](\A p \in Procs :
            opt[p].pc \in {"update", "elites", "pairs"}
                => Len(opt[p].fitnesses) = populationSize)
    /\ [][\A p \in Procs :
            /\ (opt[p].pc # "done" /\ opt'[p].outcome = "Cancelled")
                   => (opt[p].pc = "check" /\ opt[p].fitnesses = <<>>)
            /\ (opt[p].pc \in MidGeneration /\ uiPc = "sending")
                   => uiPc' = "sending"
            /\ (opt[p].pc \in MidGeneration /\ opt'[p].pc = "done")
                   => (opt[p].pc = "update"
                        /\ opt'[p].outcome \in {"Converged", "Stagnant"})
            /\ (opt[p].pc = "check" /\ opt'[p].pc \notin {"check", "done"})
                   => (opt'[p].pc = "eval"
                        /\ opt'[p].generation = opt[p].generation)
            /\ (opt[p].pc \in LoopPcs /\ opt'[p].generation # opt[p].generation)
                   => (opt[p].pc = "pairs" /\ opt'[p].pc = "check"
                        /\ opt'[p].generation = opt[p].generation + 1)]_vars

\* A cancel request arrived after the loop head was passed, and the
\* generation has gone on to a full new population.
C5_Witness ==
    \E p \in Procs : /\ uiPc = "sending"
                     /\ opt[p].pc = "pairs"
                     /\ Len(opt[p].newPopulation) >= populationSize

\* C6: when a run ends, the active pad holds the genome the run holds as
\* bestSettings.
C6_TerminalPadHoldsBest ==
    [][\A p \in Procs :
          (Active(p) /\ opt'[p].pc = "done" /\ opt'[p].outcome \in Terminal)
              => ActivePad(heap', pads', activePadIndex') = BestOf(heap', opt', p)]_vars

\* C7: the step that ends a run sets a status message that names the
\* reason.
C7_TerminalMessageNamesReason ==
    [][\A p \in Procs :
          (Active(p) /\ opt'[p].pc = "done" /\ opt'[p].outcome \in Terminal)
              => (statusMessage' # statusMessage
                    /\ statusMessage'.kind \in ReasonKinds)]_vars

\* C8 as stated: a run with no improvement after generation 0 that ends as
\* Stagnant ends at generation index maxStagnation.
C8_StagnantAtMaxStagnation ==
    \A p \in Procs :
        (opt[p].outcome = "Stagnant" /\ opt[p].lastImproved <= 0)
            => opt[p].generation = maxStagnation

\* C8 amended: a run ends as Stagnant at generation index
\* lastImproved + maxStagnation, where lastImproved is the generation of the
\* last improvement and -1 when no generation improved on the initial best:
\* at maxStagnation when generation 0 improved, at maxStagnation - 1 when it
\* did not.  Between improvements bestSettings and bestFitness stay as they
\* are, so the run ends holding the best as of its last improvement.
C8_StagnantAfterLastImprovement ==
    /\ [](\A p \in Procs :
            opt[p].outcome = "Stagnant"
                => /\ opt[p].generation = opt[p].lastImproved + maxStagnation
                   /\ opt[p].stagnationCount = maxStagnation)
    /\ [][\A p \in Procs :
            (opt[p].pc \in LoopPcs /\ opt'[p].lastImproved = opt[p].lastImproved)
                => /\ BestOf(heap', opt', p) = BestOf(heap, opt, p)
                   /\ opt'[p].bestFitness = opt[p].bestFitness]_vars

\* A run ended as Stagnant without any improvement, generation 0 included.
C8_Witness ==
    \E p \in Procs : /\ opt[p].outcome = "Stagnant"
                     /\ opt[p].lastImproved = -1
                     /\ opt[p].generation = maxStagnation - 1

\* C9: within a run bestFitness never goes up, and it changes only at the
\* update of a generation whose best fitness is strictly lower, to that
\* fitness.
C9_BestFitnessMonotone ==
    [][\A p \in Procs :
          opt[p].pc \in LoopPcs =>
              /\ opt'[p].bestFitness <= opt[p].bestFitness
              /\ opt'[p].bestFitness # opt[p].bestFitness =>
                    LET i == CurrentBestIndex(opt[p].fitnesses)
                    IN  /\ opt[p].pc = "update"
                        /\ i # -1
                        /\ opt[p].fitnesses[i] < opt[p].bestFitness
                        /\ opt'[p].bestFitness = opt[p].fitnesses[i]]_vars

\* A run improved on its best in a generation after the first, and then
\* went through a generation that did not improve.
C9_Witness ==
    \E p \in Procs : /\ opt[p].lastImproved >= 1
                     /\ opt[p].stagnationCount >= 1
                     /\ opt[p].bestFitness < Inf

\* C10: at every point of the generation loop the population has exactly
\* populationSize individuals, for every population size and elite count.
C10_PopulationSizeKept ==
    \A p \in Procs :
        opt[p].pc \in LoopPcs => Len(opt[p].population) = populationSize

\* An odd population smaller than twice the elite count has gone through a
\* generation transition.
C10_Witness ==
    \E p \in Procs : /\ opt[p].pc = "check"
                     /\ opt[p].generation >= 1
                     /\ populationSize % 2 = 1
                     /\ populationSize > 1
                     /\ populationSize < 2 * eliteCount

\* Every continuous gene of a genome is inside its declared bounds.
InBounds(cfg) == cfg.Attack \in minAttack..maxAttack

\* C11: every genome mutateSettings leaves behind has its continuous genes
\* inside their bounds, whatever the genome it was given: after the Mutate
\* button the pad's genome is in bounds, also when random initialization or
\* a slider had put a gene outside them.
C11_MutateKeepsBounds ==
    [][\A i \in Pads : MutatePad(i) => InBounds(heap'[pads'[i]])]_vars

\* C12: in every generation of a run, every genome of the population (the
\* initial individuals, the elites and the children) has its genes within
\* the bounds.
C12_PopulationInBounds ==
    \A p \in Procs :
      /\ \A i \in DOMAIN opt[p].population : InBounds(opt[p].population[i])
      /\ \A i \in DOMAIN opt[p].newPopulation :
             InBounds(opt[p].newPopulation[i])

\* C13: the genomes that elitism copies into the new population are the
\* eliteCount lowest-scoring genomes of the current generation: each elite
\* is a copy of a different individual of the population, and no individual
\* left out scores lower than the score the elites were kept with.
C13_ElitesAreTopRanked ==
    \A p \in Procs :
      opt[p].pc = "pairs" =>
        LET r == opt[p]
            k == IF eliteCount < populationSize THEN eliteCount
                 ELSE populationSize
        IN  \E idx \in [1..k -> DOMAIN r.population] :
              /\ \A i, j \in 1..k : idx[i] = idx[j] => i = j
              /\ \A i \in 1..k : r.newPopulation[i] = r.population[idx[i]]
              /\ \A j \in DOMAIN r.population \ {idx[n] : n \in 1..k} :
                    r.bestFitness <= r.fitnesses[j]

\* C14: what a reader of the status sees during a run belongs to one
\* publication: whenever the active pad holds the best genome of the run and
\* the status message tells a generation and its best score, that score is
\* the score of the genome in the pad.
C14_SnapshotIsOnePublication ==
    \A p \in Procs :
      ( /\ Active(p)
        /\ pads[activePadIndex] = opt[p].bestSettings
        /\ statusMessage.kind = MsgProgress(0, 0).kind )
      => statusMessage.fitness = opt[p].bestFitness

\* C15: during a run only the generation loop writes the global best: no
\* slider move, Mutate, Randomize all or pad click changes the genome that
\* bestSettings holds.
C15_OnlyLoopWritesBest ==
    [][\A p \in Procs :
          ( /\ opt[p].pc \in LoopPcs
            /\ \/ \E v \in SliderAttack : MoveSlider(v)
               \/ \E i \in Pads : MutatePad(i)
               \/ \E i \in Pads : SelectPad(i)
               \/ RandomizeAll )
          => BestOf(heap', opt', p) = BestOf(heap, opt, p)]_vars

\* C16: the target waveform is read-only for a run: no fitness evaluation,
\* the one of the initial best included, changes loadedWaveform, whatever
\* the working sample rate and the revision.
C16_EvaluationKeepsTarget ==
    [][\A p \in Procs :
          (OptStart(p) \/ EvalOne(p)) => loadedWaveform' = loadedWaveform]_vars

\* C17: a genome whose rendering failed (score +Inf) is never the best:
\* whenever a run holds a genome in bestSettings, the score it holds for it
\* is finite, from the initial best on and also when every genome fails.
C17_FailedGenomeNeverBest ==
    \A p \in Procs : opt[p].bestSettings # 0 => opt[p].bestFitness < Inf

\* C18: a start with an empty loadedWaveform is rejected with a reported
\* reason and changes no run state: trainingOngoing is not left set by the
\* rejected start.
C18_RejectedStartLeavesNoState ==
    [][\A p \in Procs :
          (opt[p].pc = "start" /\ opt'[p].outcome = "Rejected")
          => (statusMessage' = MsgNoWav /\ ~trainingOngoing')]_vars

\* C19: whenever the global best of a run is below the convergence
\* threshold the run is Converged: it is in no further generation, and it
\* has not ended as Stagnant or Exhausted, also when the initial best is
\* already below the threshold.
C19_BelowThresholdIsConverged ==
    \A p \in Procs :
      ( /\ opt[p].bestSettings # 0
        /\ Converged(opt[p].bestFitness) )
      => /\ opt[p].pc \notin MidGeneration
         /\ opt[p].outcome \notin {"Stagnant", "Exhausted"}

\* C20: every run terminates.  No generation begins once maxGenerations
\* generations are done; under the scheduler's fairness a run that is under
\* way comes to its end; and a run that leaves the loop at generation
\* maxGenerations ends as Exhausted.
C20_RunTerminates ==
    /\ [](\A p \in Procs :
            /\ opt[p].generation <= maxGenerations
            /\ opt[p].pc \in MidGeneration => opt[p].generation < maxGenerations)
    /\ \A p \in Procs : Active(p) ~> opt[p].pc = "done"
    /\ [][\A p \in Procs :
            ( /\ opt[p].pc \in LoopPcs
              /\ opt[p].generation = maxGenerations
              /\ opt'[p].pc = "done" )
            => opt'[p].outcome = "Exhausted"]_vars

\* A run went through maxGenerations generations and ended as Exhausted.
C20_Witness ==
    \E p \in Procs : /\ opt[p].outcome = "Exhausted"
                     /\ opt[p].generation = maxGenerations

\* The call of compareWaveformsSafe has returned.
Evaluated == calc.op = "compareWaveformsSafe" /\ calc.returned

\* attack + decay + release lies inside the duration window, ends included.
InWindow(individual) ==
    LET d == individual.Attack + individual.Decay + individual.Release
    IN  minSampleDuration <= d /\ d <= maxSampleDuration

\* The buffer Generate rendered is the target waveform, sample for sample.
Identical ==
    /\ ~calc.rendering.err
    /\ ~calc.rendering.generated.nil
    /\ calc.rendering.generated = calc.target

C22_WaveformMutationFollowsMode ==
    (calc.op = "mutateSettings" /\ calc.returned) =>
      LET types == {c.WaveformType :
                      c \in mutateSettings(calc.child, MutationMode(calc.mode))}
      IN  IF calc.mode
          THEN 0..(allWaveformTypes - 1) \subseteq types
          ELSE types \subseteq
                 {calc.child.WaveformType} \cup 0..(basicWaveformTypes - 1)

\* The call of singlePointCrossover has returned.
Crossed == calc.op = "singlePointCrossover" /\ calc.returned

\* C23: crossover is a gene-wise swap of clones: for each gene the children
\* hold the parents' values, in the parents' order or swapped, and every
\* other field of a child is that of its own parent.
C23_CrossoverSwapsGenes ==
    Crossed =>
      /\ \A g \in Genes :
            \/ calc.child1[g] = calc.parent1[g] /\ calc.child2[g] = calc.parent2[g]
            \/ calc.child1[g] = calc.parent2[g] /\ calc.child2[g] = calc.parent1[g]
      /\ \A f \in DOMAIN calc.parent1 \ Genes :
            calc.child1[f] = calc.parent1[f] /\ calc.child2[f] = calc.parent2[f]

\* Parents that differ in every gene and in the sample rate were crossed:
\* some genes were swapped and some were kept.
C23_Witness ==
    /\ Crossed
    /\ calc.parent1.SampleRate # calc.parent2.SampleRate
    /\ \A g \in Genes : calc.parent1[g] # calc.parent2[g]
    /\ \E g \in Genes : calc.child1[g] = calc.parent2[g]
    /\ \E g \in Genes : calc.child1[g] = calc.parent1[g]

\* The genes a pair of children got from the other parent.
SwapPattern(children) == {g \in Genes : children[1][g] = calc.parent2[g]}

Selected == calc.op = "tournamentSelection" /\ calc.returned

\* C25: tournamentSelection returns a member of the population that was
\* drawn, no drawn contestant scores lower, and every contestant drawn
\* before it scores higher: of the contestants with the lowest score it is
\* the one drawn first.
C25_TournamentReturnsFirstLowest ==
    Selected =>
      /\ calc.bestIndex \in 1..Len(calc.population)
      /\ calc.best = calc.population[calc.bestIndex]
      /\ \E k \in 1..tournamentSize :
            /\ calc.draws[k] = calc.bestIndex
            /\ \A j \in 1..(k - 1) :
                  calc.fitnesses[calc.draws[j]] > calc.fitnesses[calc.bestIndex]
      /\ \A k \in 1..tournamentSize :
            calc.fitnesses[calc.draws[k]] >= calc.fitnesses[calc.bestIndex]

\* A tournament between two different contestants with the same score
\* returned the one drawn first.
C25_Witness ==
    /\ Selected
    /\ calc.draws[1] # calc.draws[tournamentSize]
    /\ calc.fitnesses[calc.draws[1]] = calc.fitnesses[calc.draws[tournamentSize]]
    /\ calc.fitnesses[calc.draws[1]] < Inf
    /\ calc.bestIndex = calc.draws[1]

\* The generations of run p that are over: the one under way counts once
\* its best has been compared with the global best.
GenerationsOver(p) ==
    IF opt[p].pc \in {"elites", "pairs"}
    THEN opt[p].generation + 1
    ELSE opt[p].generation

\* C26: the stagnation counter is the number of generations that are over
\* since the last one that improved the global best; an improvement resets
\* it to 0 and a generation without one adds 1; a run is Stagnant exactly
\* when the counter has reached maxStagnation, and below it while it runs.
C26_StagnationCounter ==
    /\ [](\A p \in Procs :
            /\ opt[p].pc \in LoopPcs
                 => /\ opt[p].stagnationCount
                         = GenerationsOver(p) - (opt[p].lastImproved + 1)
                    /\ 0 <= opt[p].stagnationCount
                    /\ opt[p].stagnationCount < maxStagnation
            /\ opt[p].outcome = "Stagnant"
                 <=> (opt[p].pc = "done"
                        /\ opt[p].stagnationCount = maxStagnation))
    /\ [][\A p \in Procs :
            /\ UpdateBest(p) => opt'[p].stagnationCount = 0
            /\ NoImprovement(p)
                 => opt'[p].stagnationCount = opt[p].stagnationCount + 1]_vars

\* A run that improved its best in a generation is one generation short of
\* stagnation.
C26_Witness ==
    \E p \in Procs : /\ opt[p].pc \in LoopPcs
                     /\ opt[p].lastImproved >= 0
                     /\ opt[p].stagnationCount = maxStagnation - 1

\* C27: at the end of each generation of a run the active pad holds the
\* global best genome of the run, whatever the UI did in between.
C27_PadHoldsBestAfterGeneration ==
    [][\A p \in Procs :
          BuildFinish(p)
              => ActivePad(heap', pads', activePadIndex')
                   = BestOf(heap', opt', p)]_vars

\* The sample rates and bit depths of the genomes run p holds in its
\* population and in the population it is building.
ContextOf(o, p) ==
    {<<o[p].population[i].SampleRate, o[p].population[i].BitDepth>> :
        i \in DOMAIN o[p].population}
    \cup {<<o[p].newPopulation[i].SampleRate, o[p].newPopulation[i].BitDepth>> :
            i \in DOMAIN o[p].newPopulation}

\* C29: the genomes of a run keep the sample rate and the bit depth they
\* were initialized with: inside the loop no step brings a genome with
\* another sample rate or bit depth into the population, whatever the UI
\* selects meanwhile.
C29_ContextCarriedNotEvolved ==
    [][\A p \in Procs :
          (opt[p].pc \in LoopPcs /\ opt'[p].pc \in LoopPcs)
              => ContextOf(opt', p) \subseteq ContextOf(opt, p)]_vars

\* The penalty for a duration d.
DurationPenalty(d) ==
    IF d < minSampleDuration THEN 1000 * (minSampleDuration - d)
    ELSE IF d > maxSampleDuration THEN 1000 * (d - maxSampleDuration)
    ELSE 0

\* The score of the call before any penalty: half the time-domain MSE plus
\* half the frequency-domain MSE.
ScoreBeforePenalty ==
    Add(Half(compareWaveforms(calc.rendering.generated, calc.target)),
        Half(compareWaveformsFFT(calc.rendering.generated, calc.target,
                                 sampleRate)))

\* C28: with d = attack + decay + release, sustain left out, the evaluator
\* adds 1000 * (minSampleDuration - d) below the window,
\* 1000 * (d - maxSampleDuration) above it, and nothing inside it, its two
\* ends included.
C28_DurationPenalty ==
    (Evaluated /\ ~calc.rendering.err) =>
      LET d == calc.individual.Attack + calc.individual.Decay
               + calc.individual.Release
      IN  /\ calc.score = Add(ScoreBeforePenalty, Float(DurationPenalty(d)))
          /\ d \in {minSampleDuration, maxSampleDuration}
               => calc.score = Add(ScoreBeforePenalty, Float(0))

\* A call with a sustain that is not 0 was made one unit above the window,
\* and its finite score holds the penalty of 1000.
C28_Witness ==
    /\ Evaluated
    /\ ~calc.rendering.err
    /\ calc.score.den # 0
    /\ calc.individual.Sustain > 0
    /\ expectedDuration(calc.individual) = maxSampleDuration + 1
    /\ calc.score.num >= 1000 * calc.score.den

\* C30: a cancel request does not block its caller for ever: whenever the
\* UI thread is in the send on cancelTraining while a run is active, the
\* send is received and the UI thread goes on, also when the run ends by
\* itself before its next select.
C30_SendIsReceived ==
    (uiPc = "sending" /\ Running # {}) ~> (uiPc = "ready")

\* C31: in the revision that cancels by close(cancelTraining), a second
\* cancel request that comes while the run is still active, before the loop
\* has come to its select, fails nothing: the handler returns, no goroutine
\* is lost and the run still ends as Cancelled.
C31_SecondCancelIsHarmless ==
    [][(/\ revision = "1.5.4"
        /\ uiPc = "stopChecked"
        /\ cancelTraining = "closed"
        /\ Running # {})
          => (uiPc' = "ready" /\ opt' = opt)]_vars

\* C32: a cancel request made during one run does not cancel a later one.
\* Every start that is accepted leaves a channel nothing has been sent on or
\* closed, with no sender waiting; and a run ends as Cancelled only by a step
\* that finds a request on the channel, which can then only have come after
\* the start.
C32_CancelBelongsToItsRun ==
    [][\A p \in Procs :
          /\ (opt[p].pc \in {"none", "done"} /\ opt'[p].pc = "start")
               => (cancelTraining' = "chan" /\ uiPc' # "sending")
          /\ (opt[p].outcome # "Cancelled" /\ opt'[p].outcome = "Cancelled")
               => (Active(p) /\ CancelReady)]_vars

\* A run has been started after a run that a request ended, on a new
\* channel, in the revision that closes the channel.
C32_Witness ==
    /\ revision = "1.5.4"
    /\ cancelTraining = "chan"
    /\ statusMessage = MsgCanceled
    /\ \E p \in Procs : opt[p].pc = "start"

\* The genes of a settings value, without its sample rate and bit depth.
Genome(cfg) == [f \in DOMAIN cfg \cap Genes |-> cfg[f]]

\* The individuals of the population of p whose genome is the global best's.
HoldersOfBest(p) ==
    {i \in DOMAIN opt[p].population :
        Genome(opt[p].population[i]) = Genome(BestOf(heap, opt, p))}

\* C33: in every generation the population holds a genome equal to the
\* global best genome; so, when the evaluator gives that genome the score it
\* is held with, the best score of the generation is not worse than the
\* global best score.
C33_PopulationHoldsBest ==
    \A p \in Procs :
      /\ opt[p].pc \in LoopPcs => HoldersOfBest(p) # {}
      /\ (/\ opt[p].pc = "update"
          /\ \A i \in HoldersOfBest(p) : opt[p].fitnesses[i] = opt[p].bestFitness)
           => \E i \in DOMAIN opt[p].fitnesses :
                 opt[p].fitnesses[i] <= opt[p].bestFitness

\* The times of main.go in ticks of 0.05 s, the unit in which its bounds are
\* whole numbers: minAttack .. maxAttack and the range of the Attack slider,
\* minDecay .. maxDecay, minRelease .. maxRelease, and minSampleDuration ..
\* maxSampleDuration.
attackTicks == [min |-> 1, max |-> 10, sliderMin |-> 0, sliderMax |-> 20]
decayTicks == [min |-> 1, max |-> 10]
releaseTicks == [min |-> 1, max |-> 20]
sampleDurationTicks == [min |-> 2, max |-> 40]

\* The attack, decay and release of a genome of the run model.  Its Attack
\* is at the lower or the upper bound, or where the slider's ends put it;
\* its decay and release are at their bound of the same side.
TimesOf(cfg) ==
    LET lower == cfg.Attack <= minAttack
    IN  [Attack  |-> IF cfg.Attack < minAttack THEN attackTicks.sliderMin
                     ELSE IF cfg.Attack > maxAttack THEN attackTicks.sliderMax
                     ELSE IF lower THEN attackTicks.min ELSE attackTicks.max,
         Decay   |-> IF lower THEN decayTicks.min ELSE decayTicks.max,
         Release |-> IF lower THEN releaseTicks.min ELSE releaseTicks.max]

\* What the two `if`s of compareWaveformsSafe add to the score of a genome
\* of the run model.
PenaltyOf(cfg) ==
    LET d == expectedDuration(TimesOf(cfg))
    IN  (IF d < sampleDurationTicks.min
         THEN (sampleDurationTicks.min - d) * 1000 ELSE 0)
        + (IF d > sampleDurationTicks.max
           THEN (d - sampleDurationTicks.max) * 1000 ELSE 0)

\* C34: a genome whose attack, decay and release are within their bounds has
\* a duration inside the window, and the duration penalty is zero for every
\* genome of the population in every generation of a run.
C34_PopulationHasNoPenalty ==
    /\ \A a \in minAttack..maxAttack :
          LET d == expectedDuration(TimesOf([Attack |-> a]))
          IN  sampleDurationTicks.min <= d /\ d <= sampleDurationTicks.max
    /\ \A p \in Procs :
         /\ \A i \in DOMAIN opt[p].population :
               PenaltyOf(opt[p].population[i]) = 0
         /\ \A i \in DOMAIN opt[p].newPopulation :
               PenaltyOf(opt[p].newPopulation[i]) = 0

\* The waveform types of the mode of a run.
ValidTypes(mode) ==
    IF mode THEN 0..(allWaveformTypes - 1) ELSE 0..(basicWaveformTypes - 1)

\* The waveform types found in a sequence of individuals.
TypesIn(individuals) ==
    {individuals[i].WaveformType : i \in DOMAIN individuals}

MaxOverlapSamples == 4
    \* samples of a waveform of SpecOverlap; the transform is exact up to 4

OverlapWaveforms ==
    {Slice(data) :
        data \in UNION {[1..n -> Samples] : n \in 0..MaxOverlapSamples}}

InitOverlap ==
    /\ populationSize = RunPopulation
    /\ eliteCount = RunElite
    /\ revision = "1.2.0"
    /\ InitGlobals
    /\ calc \in [op : {"compareWaveformsSafe"},
                 individual : {individual \in Individuals : InWindow(individual)},
                 rendering : [generated : OverlapWaveforms, err : {FALSE}],
                 target : OverlapWaveforms,
                 returned : {FALSE}, score : {NaN}]

SpecOverlap == InitOverlap /\ [][Evaluate]_vars

\* waveform[:m]
Truncated(waveform, m) ==
    IF waveform.nil THEN waveform ELSE Slice(SubSeq(waveform.data, 1, m))

\* The length of the overlap of the two buffers of the call.
OverlapLength == min(Len(calc.rendering.generated.data), Len(calc.target.data))

\* C36: both error terms use the first min(len1, len2) samples of each
\* buffer only: the score of a call is the score of the two buffers cut to
\* their overlap, whatever the longer buffer holds beyond it.
C36_ScoreUsesOverlapOnly ==
    Evaluated =>
      calc.score = combinedMSE(calc.individual,
                               Truncated(calc.rendering.generated, OverlapLength),
                               calc.rendering.err,
                               Truncated(calc.target, OverlapLength))

(***************************************************************************)
(* SpecGene: the mutation of one continuous gene, with its value as an     *)
(* exact fraction of a tick of 0.05 (seconds for the times, and the same   *)
(* unit for the other genes), over a sequence of calls of mutateSettings.  *)
(***************************************************************************)
MaxMutations == 2
    \* calls of mutateSettings on the one genome

\* minX and maxX of each continuous gene, in ticks.
geneTicks ==
    [Attack       |-> [min |-> attackTicks.min, max |-> attackTicks.max],
     Decay        |-> decayTicks,
     Sustain      |-> [min |-> 2, max |-> 20],
     Release      |-> releaseTicks,
     Drive        |-> [min |-> 0, max |-> 20],
     FilterCutoff |-> [min |-> 10000, max |-> 200000],
     Sweep        |-> [min |-> 2, max |-> 40],
     PitchDecay   |-> [min |-> 2, max |-> 30],
     NoiseAmount  |-> [min |-> 0, max |-> 20]]

\* The ends of the slider of each gene that has one, in ticks.
sliderTicks ==
    [Attack       |-> {attackTicks.sliderMin, attackTicks.sliderMax},
     Decay        |-> {2, 20},
     Sustain      |-> {0, 20},
     Release      |-> {2, 20},
     Drive        |-> {0, 20},
     FilterCutoff |-> {20000, 160000},
     Sweep        |-> {2, 40},
     PitchDecay   |-> {2, 30},
     NoiseAmount  |-> {}]

\* The values a gene of a pad's genome starts from: where the clamps or the
\* slider's ends put it.
StartValues(f) ==
    {Float(t) : t \in {geneTicks[f].min, geneTicks[f].max} \cup sliderTicks[f]}

\* `0.8 + rand.Float64()*0.4`: the lower end of the range, 1, and a factor
\* above 1.
Factors ==
    {[num |-> 4, den |-> 5], [num |-> 1, den |-> 1], [num |-> 11, den |-> 10]}

\* A perturbation that adds (factor - 1) to the value.
PerturbedByAdding(value, factor) ==
    [num |-> value.num * factor.den + (factor.num - factor.den) * value.den,
     den |-> value.den * factor.den]

\* `cfg.X * (0.8 + rand.Float64()*0.4)`
Perturbed(value, factor) ==
    [num |-> value.num * factor.num, den |-> value.den * factor.den]

\* func clamp, on a fraction and whole bounds.
clampFloat(value, lo, hi) ==
    IF value.num < lo * value.den THEN Float(lo)
    ELSE IF value.num > hi * value.den THEN Float(hi)
    ELSE value

\* What one call of mutateSettings can put in gene f when it mutates it.
MutatedValues(f, value) ==
    {clampFloat(Perturbed(value, factor), geneTicks[f].min, geneTicks[f].max) :
        factor \in Factors}

InitGene ==
    /\ populationSize = RunPopulation
    /\ eliteCount = RunElite
    /\ revision = "1.2.0"
    /\ InitGlobals
    /\ \E f \in ContinuousGenes : \E start \in StartValues(f) :
         calc = [op |-> "mutateSettings.gene", gene |-> f, start |-> start,
                 value |-> start, calls |-> 0, mutations |-> 0]

\* One call of mutateSettings on the genome: the gene's draw is below
\* mutationRate and the gene is mutated, or it is not and the gene stays.
MutateGene ==
    /\ calc.op = "mutateSettings.gene"
    /\ calc.calls < MaxMutations
    /\ \/ \E value \in MutatedValues(calc.gene, calc.value) :
            calc' = [calc EXCEPT !.value = value, !.calls = @ + 1,
                                 !.mutations = @ + 1]
       \/ calc' = [calc EXCEPT !.calls = @ + 1]
    /\ UNCHANGED <<populationSize, eliteCount, revision, activePadIndex, pads,
                   heap, loadedWaveform, trainingOngoing, statusMessage,
                   cancelTraining, audio, uiPc, opt>>

SpecGene == InitGene /\ [][MutateGene]_vars

\* The gene of the calls started at 0.
StartedAtZero == calc.op = "mutateSettings.gene" /\ IsZero(calc.start)

\* C37 as stated: a continuous gene whose value is 0 is left at 0 by every
\* mutation, whatever the gene.
C37_ZeroGeneStaysZero == StartedAtZero => IsZero(calc.value)

\* C37: a continuous gene whose lower bound is 0 (drive, noise amount) and
\* whose value is 0 is left at 0 by every sequence of mutations.
C37_ZeroStaysZeroAtLowerBoundZero ==
    (StartedAtZero /\ geneTicks[calc.gene].min = 0) => IsZero(calc.value)

\* The drive started at 0 and has been mutated in each of the calls.
C37_Witness ==
    /\ StartedAtZero
    /\ calc.gene = "Drive"
    /\ calc.mutations = MaxMutations
    /\ IsZero(calc.value)

(***************************************************************************)
(* SpecPair: the loop that fills the new population, on objects.  The      *)
(* individuals are pointers: calc.store holds the object at each address,  *)
(* calc.population and calc.newPopulation hold addresses, and mutation and *)
(* the clamps write into the object a pointer names.                       *)
(***************************************************************************)
\* Addresses for the population and for every child the loop can make.
ObjAddr == 1..(2 * MaxPopulation + 1)

\* The lowest address no object is at.
FreshObj(used) == CHOOSE a \in ObjAddr \ used : \A b \in ObjAddr \ used : a <= b

\* The indices tournamentSelection can end with, over every sequence of
\* draws.
Winners(fitnesses) ==
    {TournamentIndex(fitnesses, draws) :
        draws \in [1..tournamentSize -> 1..Len(fitnesses)]}

\* A child that is its parent, not a copy of it.
ChildShared(parent, fresh) == parent

\* `child1 := synth.CopySettings(parent1)`: the child is a new object.
ChildCopied(parent, fresh) == fresh

InitPair ==
    /\ populationSize = MaxPopulation
    /\ eliteCount = 0
    /\ revision = "1.2.0"
    /\ InitGlobals
    /\ \E population \in [1..MaxPopulation -> InitialIndividuals] :
       \E fitnesses \in [1..MaxPopulation -> Scores] :
         calc = [op |-> "newPopulation",
                 store |-> [a \in ObjAddr |->
                              IF a <= MaxPopulation THEN population[a] ELSE Null],
                 population |-> [i \in 1..MaxPopulation |-> i],
                 fitnesses |-> fitnesses,
                 newPopulation |-> <<>>,
                 scored |-> population,
                 scoredFitnesses |-> fitnesses]

\* One pass of `for len(newPopulation) < populationSize`: the parents are
\* the pointers tournamentSelection returns, the children the objects
\* singlePointCrossover returns, mutated and clamped in place.
PairPass ==
    /\ calc.op = "newPopulation"
    /\ Len(calc.newPopulation) < populationSize
    /\ \E index1 \in Winners(calc.fitnesses) :
       \E index2 \in Winners(calc.fitnesses) :
         LET parent1 == calc.population[index1]
             parent2 == calc.population[index2]
             used == {calc.population[i] : i \in DOMAIN calc.population}
                     \cup {calc.newPopulation[i] : i \in DOMAIN calc.newPopulation}
             fresh1 == FreshObj(used)
             fresh2 == FreshObj(used \cup {fresh1})
             child1 == ChildCopied(parent1, fresh1)
             child2 == ChildCopied(parent2, fresh2)
         IN  \E children \in singlePointCrossover(calc.store[parent1],
                                                  calc.store[parent2]) :
               LET crossed == [[calc.store EXCEPT ![child1] = children[1]]
                                 EXCEPT ![child2] = children[2]]
               IN  \E mutated1 \in mutateSettings(crossed[child1],
                                                  MutationMode(RunMode)) :
                     LET store1 == [crossed EXCEPT ![child1] = ClampChild(mutated1)]
                     IN  \E mutated2 \in mutateSettings(store1[child2],
                                                        MutationMode(RunMode)) :
                           calc' = [calc EXCEPT
                                      !.store = [store1 EXCEPT
                                                   ![child2] = ClampChild(mutated2)],
                                      !.newPopulation = @ \o <<child1, child2>>]
    /\ UNCHANGED <<populationSize, eliteCount, revision, activePadIndex, pads,
                   heap, loadedWaveform, trainingOngoing, statusMessage,
                   cancelTraining, audio, uiPc, opt>>

SpecPair == InitPair /\ [][PairPass]_vars

\* The objects of the scored generation, as the pointers of the population
\* name them now.
PopulationNow == [i \in DOMAIN calc.population |-> calc.store[calc.population[i]]]

\* C38: building the next population leaves the scored generation as it
\* was: after every pass of selection, crossover and mutation each genome of
\* the current population and each fitness is what it was when the
\* generation was scored, and no child is an object of the population.
C38_ScoredGenerationUnchanged ==
    calc.op = "newPopulation" =>
       /\ PopulationNow = calc.scored
       /\ calc.fitnesses = calc.scoredFitnesses
       /\ \A i \in DOMAIN calc.newPopulation :
             \A j \in DOMAIN calc.population :
                calc.newPopulation[i] # calc.population[j]

\* The loop has run to its end, and a child holds a genome that no
\* individual of the scored generation has.
C38_Witness ==
    /\ calc.op = "newPopulation"
    /\ Len(calc.newPopulation) >= populationSize
    /\ \E i \in DOMAIN calc.newPopulation :
         \A j \in DOMAIN calc.population :
            calc.store[calc.newPopulation[i]] # calc.store[calc.population[j]]

(***************************************************************************)
(* SpecPower: one call of nextPowerOfTwo, step by step, on an int of       *)
(* IntBits bits in two's complement (64 on the platforms Go builds the     *)
(* program for).                                                           *)
(***************************************************************************)
IntBits == 6
    \* width of int (64)

MinInt == -(2 ^ (IntBits - 1))
MaxInt == 2 ^ (IntBits - 1) - 1

\* The int a result wraps to.
Wrap(x) == ((x - MinInt) % (2 ^ IntBits)) + MinInt

\* `power <<= 1`
ShiftLeft(power) == Wrap(2 * power)

InitPower ==
    /\ populationSize = RunPopulation
    /\ eliteCount = RunElite
    /\ revision = "1.2.0"
    /\ InitGlobals
    /\ \E n \in MinInt..MaxInt :
         calc = [op |-> "nextPowerOfTwo", n |-> n, pc |-> "entry",
                 power |-> 0, result |-> 0]

\* `if n <= 0 { return 1 }`, else `power := 1`
PowerEnter ==
    /\ calc.op = "nextPowerOfTwo"
    /\ calc.pc = "entry"
    /\ calc' = IF calc.n <= 0
               THEN [calc EXCEPT !.pc = "returned", !.result = 1]
               ELSE [calc EXCEPT !.pc = "loop", !.power = 1]
    /\ UNCHANGED <<populationSize, eliteCount, revision, activePadIndex, pads,
                   heap, loadedWaveform, trainingOngoing, statusMessage,
                   cancelTraining, audio, uiPc, opt>>

\* `for power < n { power <<= 1 }`: one pass.
PowerDouble ==
    /\ calc.op = "nextPowerOfTwo"
    /\ calc.pc = "loop"
    /\ calc.power < calc.n
    /\ calc' = [calc EXCEPT !.power = ShiftLeft(calc.power)]
    /\ UNCHANGED <<populationSize, eliteCount, revision, activePadIndex, pads,
                   heap, loadedWaveform, trainingOngoing, statusMessage,
                   cancelTraining, audio, uiPc, opt>>

\* The loop is left: `return power`
PowerReturn ==
    /\ calc.op = "nextPowerOfTwo"
    /\ calc.pc = "loop"
    /\ ~(calc.power < calc.n)
    /\ calc' = [calc EXCEPT !.pc = "returned", !.result = calc.power]
    /\ UNCHANGED <<populationSize, eliteCount, revision, activePadIndex, pads,
                   heap, loadedWaveform, trainingOngoing, statusMessage,
                   cancelTraining, audio, uiPc, opt>>

NextPower == PowerEnter \/ PowerDouble \/ PowerReturn

\* The call runs on: a goroutine that can take a step takes one.
SpecPower == InitPower /\ [][NextPower]_vars /\ WF_vars(NextPower)

\* p is the smallest power of two that is not below n.
SmallestPowerFrom(p, n) ==
    /\ \E k \in 0..IntBits : p = 2 ^ k
    /\ p >= n
    /\ p < 2 * n

========================================================================
